---- MODULE Spec2Model ----
(***************************************************************************)
(* Model of go/cmd/abalone_httpd/main.go: the HTTP handlers that wrap      *)
(* AgentSupervisor.ValidateImage, ValidateImage itself (create, start,     *)
(* inspect, probe with backoff.Retry, stop) and the container runtime it   *)
(* drives.  Each request runs on its own goroutine (a member of Calls);    *)
(* one action is one blocking step of that goroutine: a runtime call and   *)
(* the local code that follows it up to the next blocking call or return.  *)
(*                                                                         *)
(* Time is counted in ticks of 10 ns, so that 10 * time.Second and the     *)
(* sums built from it stay inside TLC's 32-bit integers.                   *)
(***************************************************************************)
EXTENDS Integers, Sequences, FiniteSets, TLC

\* ------------------------------------------------------------ bounds

\* Number of requests in flight (one goroutine each).
NumCalls == 2

\* Longest list of host bindings the runtime reports for one container port.
MaxMappings == 2

Calls == 1..NumCalls

\* ------------------------------------------------------------ constants

\* time.Second in ticks of 10 ns.
Second == 100000000

\* backoffConfig.InitialInterval = time.Second
InitialInterval == Second

\* backoffConfig.MaxInterval = 10: a bare time.Duration, that is 10 ns = 1 tick.
MaxInterval == (10 * Second) \div 1000000000

\* backoffConfig.MaxElapsedTime = 10 * time.Second
MaxElapsedTime == 10 * Second

\* docker.Port("3423/tcp")
ServicePort == "3423/tcp"

\* ------------------------------------------------------------ values

Nil == "nil"
Pending == "pending"
NoContainer == 0

\* The errors ValidateImage returns, named by the text main.go gives them.
CreationError == "error creating container:"
StartError == "error starting container"
InspectionError == "error inspecting container"
PortNotExposedError == "container must expose port 3423/tcp"
AmbiguousMappingError == "error. expected one port mapping"
TeardownError == "StopContainer error"

\* The errors the retried operation returns.
NetError == "http.Get error"
DecodeError == "json decode error"

Images == {"ok-agent", "garbage-agent"}

\* ------------------------------------------------------------ runtime data

HostIPs == {"0.0.0.0"}
HostPorts == {"49001", "49002"}
PortBindings == [HostIP : HostIPs, HostPort : HostPorts]

BindingLists == UNION {[1..n -> PortBindings] : n \in 0..MaxMappings}

OtherPort == "80/tcp"
OtherBinding == <<[HostIP |-> "0.0.0.0", HostPort |-> "49001"]>>

\* info.NetworkSettings.Ports: a map from container port to its bindings.
PortTables ==
    {[p \in {ServicePort} |-> l] : l \in BindingLists}
    \cup {[p \in {ServicePort, OtherPort} |->
              IF p = ServicePort THEN l ELSE OtherBinding] : l \in BindingLists}
    \cup {[p \in {OtherPort} |-> OtherBinding]}
    \cup {[p \in {} |-> OtherBinding]}

\* ------------------------------------------------------------ agent data

\* Response bodies an agent may send on /ping, as parsed documents.
GarbageBody == [kind |-> "text", ownerType |-> "absent", Owner |-> "", Taunts |-> <<>>]
NumberOwnerBody == [kind |-> "object", ownerType |-> "number", Owner |-> "7", Taunts |-> <<>>]
EmptyObjectBody == [kind |-> "object", ownerType |-> "absent", Owner |-> "", Taunts |-> <<>>]
BtcBody == [kind |-> "object", ownerType |-> "string", Owner |-> "btc", Taunts |-> <<"gg">>]
AliceBody == [kind |-> "object", ownerType |-> "string", Owner |-> "alice", Taunts |-> <<>>]

Bodies == {GarbageBody, NumberOwnerBody, EmptyObjectBody, BtcBody, AliceBody}

\* What http.Get returns: a transport error, or a response with a body.
GetResults ==
    {[neterr |-> TRUE, body |-> GarbageBody]}
    \cup {[neterr |-> FALSE, body |-> b] : b \in Bodies}

\* Time one http.Get plus decoding may take.
AttemptTimes == {3 * Second, 6 * Second}

\* ------------------------------------------------------------ pure code

\* json.NewDecoder(resp.Body).Decode(&agentInfo): a syntax error for a body that
\* is no JSON document, a type error for an Owner that is no string; absent
\* fields keep their zero value.
DecodeAgentInfo(body) ==
    IF body.kind # "object" \/ body.ownerType = "number"
    THEN [err |-> DecodeError, Owner |-> "", Taunts |-> <<>>]
    ELSE [err |-> Nil,
          Owner |-> IF body.ownerType = "string" THEN body.Owner ELSE "",
          Taunts |-> body.Taunts]

\* What one http.Get brought back: a transport error, a body that does not
\* decode, or a decoded identity payload.
Received(r) ==
    IF r.neterr THEN NetError ELSE DecodeAgentInfo(r.body).err

\* A variant of the retried operation that rejects a foreign owner.
OperationOwnerChecked(r) ==
    IF r.neterr THEN NetError
    ELSE IF DecodeAgentInfo(r.body).err # Nil THEN DecodeAgentInfo(r.body).err
    ELSE IF DecodeAgentInfo(r.body).Owner = "btc" THEN Nil
    ELSE "owner mismatch"

\* The operation handed to backoff.Retry, applied to what http.Get returned.
\* The Owner == "btc" branch only logs.
Operation(r) ==
    IF r.neterr THEN NetError
    ELSE IF DecodeAgentInfo(r.body).err # Nil THEN DecodeAgentInfo(r.body).err
    ELSE IF DecodeAgentInfo(r.body).Owner = "btc" THEN Nil
    ELSE Nil

\* fmt.Sprintf("http://%s:%s/ping", ip, port)
PingURL(ip, port) == <<"http://", ip, ":", port, "/ping">>

\* A variant of the port checks that looks up another container port.
ResolveEndpointOtherPort(table) ==
    IF OtherPort \notin DOMAIN table
    THEN [err |-> PortNotExposedError, ip |-> "", port |-> ""]
    ELSE IF Len(table[OtherPort]) # 1
    THEN [err |-> AmbiguousMappingError, ip |-> "", port |-> ""]
    ELSE [err |-> Nil,
          ip |-> table[OtherPort][1].HostIP,
          port |-> table[OtherPort][1].HostPort]

\* A variant of the port checks that accepts any non-empty list of mappings.
ResolveEndpointFirstOfMany(table) ==
    IF ServicePort \notin DOMAIN table
    THEN [err |-> PortNotExposedError, ip |-> "", port |-> ""]
    ELSE IF Len(table[ServicePort]) = 0
    THEN [err |-> AmbiguousMappingError, ip |-> "", port |-> ""]
    ELSE [err |-> Nil,
          ip |-> table[ServicePort][1].HostIP,
          port |-> table[ServicePort][1].HostPort]

\* The port-table checks of ValidateImage and the endpoint they select.
ResolveEndpoint(table) ==
    IF ServicePort \notin DOMAIN table
    THEN [err |-> PortNotExposedError, ip |-> "", port |-> ""]
    ELSE IF Len(table[ServicePort]) # 1
    THEN [err |-> AmbiguousMappingError, ip |-> "", port |-> ""]
    ELSE [err |-> Nil,
          ip |-> table[ServicePort][1].HostIP,
          port |-> table[ServicePort][1].HostPort]

\* A variant of NextBackOff with the comparison turned round.
NextBackOffStopsNever(el) == MaxElapsedTime # 0 /\ el > MaxElapsedTime /\ el < 0

\* A variant of NextBackOff that gives up after the first failure.
NextBackOffStopsAtOnce(el) == MaxElapsedTime # 0 /\ el > 0

\* ExponentialBackOff.NextBackOff: Stop once the elapsed time is over the bound.
NextBackOffStops(el) == MaxElapsedTime # 0 /\ el > MaxElapsedTime

\* getRandomValueFromInterval with the default RandomizationFactor 0.5: some
\* value between cur - cur/2 and cur + cur/2.
RandomizedIntervals(cur) == {cur - (cur \div 2), cur, cur + (cur \div 2)}

\* incrementCurrentInterval with the default Multiplier 1.5.
IncrementCurrentInterval(cur) ==
    IF 3 * cur >= 2 * MaxInterval THEN MaxInterval ELSE (3 * cur) \div 2

\* Request bodies posted to /api/v0/images, as parsed documents.
UploadBodies ==
    {[kind |-> "text", Image |-> "", Source |-> ""]}
    \cup [kind : {"object"}, Image : Images, Source : {"dockerhub", "github", "svn"}]

\* json.NewDecoder(r.Body).Decode(&rs) in UploadImageHandler.
DecodeUpload(body) ==
    IF body.kind # "object"
    THEN [err |-> DecodeError, Image |-> "", Source |-> ""]
    ELSE [err |-> Nil, Image |-> body.Image, Source |-> body.Source]

\* ------------------------------------------------------------ state

VARIABLES
    pc,               \* where each request's goroutine stands
    request,          \* what the client sent: the image parameter or the body
    handler,          \* the handler serving the request
    image,            \* ValidateImage's argument
    container,        \* container.ID returned by CreateContainer
    ip, port,         \* the endpoint taken from mappings[0]
    err,              \* what backoff.Retry returned
    elapsed,          \* time since the backoff was reset
    currentInterval,  \* ExponentialBackOff.CurrentInterval
    result,           \* ValidateImage's return value
    response,         \* what the handler wrote: status code and message
    ops,              \* the external calls the request issued, in order
    containers        \* the runtime: every container created so far

locals == <<image, container, ip, port, err, elapsed, currentInterval>>
vars == <<pc, request, handler, image, container, ip, port, err, elapsed,
          currentInterval, result, response, ops, containers>>

NoResponse == [code |-> 0, text |-> ""]
NoRequest == [kind |-> "none", Image |-> "", Source |-> ""]

\* r.FormValue("image") of a request to /api/v0/validate.
FormRequest(img) == [kind |-> "form", Image |-> img, Source |-> ""]

\* One external call: a runtime call on container id, an http.Get of url
\* (res is what the retried operation made of it, owner the decoded Owner),
\* or the time.Sleep between two attempts.
RuntimeEvent(op, id, res) ==
    [op |-> op, id |-> id, url |-> <<>>, res |-> res, owner |-> "", wait |-> 0]
GetEvent(url, res, owner) ==
    [op |-> "Get", id |-> NoContainer, url |-> url, res |-> res, owner |-> owner, wait |-> 0]
SleepEvent(w) ==
    [op |-> "Sleep", id |-> NoContainer, url |-> <<>>, res |-> Nil, owner |-> "", wait |-> w]

Log(c, evs) == ops' = [ops EXCEPT ![c] = @ \o evs]

InitWith(running) ==
    /\ pc = [c \in Calls |-> IF c \in running THEN "idle" ELSE "off"]
    /\ request = [c \in Calls |-> NoRequest]
    /\ handler = [c \in Calls |-> "none"]
    /\ image = [c \in Calls |-> ""]
    /\ container = [c \in Calls |-> NoContainer]
    /\ ip = [c \in Calls |-> ""]
    /\ port = [c \in Calls |-> ""]
    /\ err = [c \in Calls |-> Nil]
    /\ elapsed = [c \in Calls |-> 0]
    /\ currentInterval = [c \in Calls |-> 0]
    /\ result = [c \in Calls |-> Pending]
    /\ response = [c \in Calls |-> NoResponse]
    /\ ops = [c \in Calls |-> <<>>]
    /\ containers = <<>>

\* One request at a time.
Init == InitWith({1})

\* ------------------------------------------------------------ handlers

\* What the handler writes once ValidateImage has returned e.
\* ValidateAgentHandler never sets a status; UploadImageHandler answers 400 on error.
HandlerResponse(h, e) ==
    IF h = "validate"
    THEN [code |-> 200, text |-> IF e = Nil THEN "is valid" ELSE "is not valid"]
    ELSE IF e = Nil THEN [code |-> 200, text |-> ""]
    ELSE [code |-> 400, text |-> "is not valid"]

\* The handler answers without calling ValidateImage.
Reject(c, h, code, text) ==
    /\ handler' = [handler EXCEPT ![c] = h]
    /\ response' = [response EXCEPT ![c] = [code |-> code, text |-> text]]
    /\ pc' = [pc EXCEPT ![c] = "done"]
    /\ UNCHANGED <<locals, result, ops, containers>>

\* The handler calls s.ValidateImage(img).
Call(c, h, img) ==
    /\ handler' = [handler EXCEPT ![c] = h]
    /\ image' = [image EXCEPT ![c] = img]
    /\ pc' = [pc EXCEPT ![c] = "create"]
    /\ UNCHANGED <<container, ip, port, err, elapsed, currentInterval,
                   result, response, ops, containers>>

\* ValidateImage returns e and the handler writes its response.
Return(c, e) ==
    /\ result' = [result EXCEPT ![c] = e]
    /\ response' = [response EXCEPT ![c] = HandlerResponse(handler[c], e)]
    /\ pc' = [pc EXCEPT ![c] = "done"]

ValidateAgentHandler(c) ==
    /\ pc[c] = "idle"
    /\ \E img \in Images \cup {""} :
          /\ request' = [request EXCEPT ![c] = FormRequest(img)]
          /\ IF img = ""
             THEN Reject(c, "validate", 400, "image parameter is required")
             ELSE Call(c, "validate", img)

\* A variant of the upload handler that validates a GitHub source as well.
UploadImageHandlerAnySource(c) ==
    /\ pc[c] = "idle"
    /\ \E body \in UploadBodies :
          LET rs == DecodeUpload(body) IN
          /\ request' = [request EXCEPT ![c] = body]
          /\ IF rs.err # Nil
             THEN Reject(c, "upload", 400, "error decoding request")
             ELSE IF rs.Source \in {"dockerhub", "github"}
             THEN Call(c, "upload", rs.Image)
             ELSE Reject(c, "upload", 400, "Unrecognized image source")

UploadImageHandler(c) ==
    /\ pc[c] = "idle"
    /\ \E body \in UploadBodies :
          LET rs == DecodeUpload(body) IN
          /\ request' = [request EXCEPT ![c] = body]
          /\ IF rs.err # Nil
             THEN Reject(c, "upload", 400, "error decoding request")
             ELSE IF rs.Source = "dockerhub"
             THEN Call(c, "upload", rs.Image)
             ELSE IF rs.Source = "github"
             THEN Reject(c, "upload", 501, "not implemented")
             ELSE Reject(c, "upload", 400, "Unrecognized image source")

\* ------------------------------------------------------------ ValidateImage

NoPorts == [p \in {} |-> OtherBinding]

\* A variant of the creation branch that inspects the container before it is
\* started.
CreateContainerOkInspectsFirst(c) ==
    /\ pc[c] = "create"
    /\ LET id == Len(containers) + 1 IN
       /\ containers' = Append(containers,
              [image |-> image[c], state |-> "created", creator |-> c,
               ports |-> NoPorts])
       /\ container' = [container EXCEPT ![c] = id]
       /\ Log(c, <<RuntimeEvent("CreateContainer", id, "ok")>>)
    /\ pc' = [pc EXCEPT ![c] = "inspect"]
    /\ UNCHANGED <<request, handler, image, ip, port, err, elapsed, currentInterval,
                   result, response>>

CreateContainerOk(c) ==
    /\ pc[c] = "create"
    /\ LET id == Len(containers) + 1 IN
       /\ containers' = Append(containers,
              [image |-> image[c], state |-> "created", creator |-> c,
               ports |-> NoPorts])
       /\ container' = [container EXCEPT ![c] = id]
       /\ Log(c, <<RuntimeEvent("CreateContainer", id, "ok")>>)
    /\ pc' = [pc EXCEPT ![c] = "start"]
    /\ UNCHANGED <<request, handler, image, ip, port, err, elapsed, currentInterval,
                   result, response>>

\* A variant of the creation-error branch that goes on to the teardown.
CreateContainerErrThenStop(c) ==
    /\ pc[c] = "create"
    /\ Log(c, <<RuntimeEvent("CreateContainer", NoContainer, "error")>>)
    /\ pc' = [pc EXCEPT ![c] = "stop"]
    /\ UNCHANGED <<request, handler, locals, result, response, containers>>

CreateContainerErr(c) ==
    /\ pc[c] = "create"
    /\ Log(c, <<RuntimeEvent("CreateContainer", NoContainer, "error")>>)
    /\ Return(c, CreationError)
    /\ UNCHANGED <<request, handler, locals, containers>>

\* A variant of the start branch that starts the container created last,
\* as a supervisor-wide field holding the container would.
StartContainerOkLatest(c) ==
    /\ pc[c] = "start"
    /\ \E t \in PortTables :
          containers' = [containers EXCEPT ![Len(containers)] =
                            [@ EXCEPT !.state = "running", !.ports = t]]
    /\ Log(c, <<RuntimeEvent("StartContainer", Len(containers), "ok")>>)
    /\ pc' = [pc EXCEPT ![c] = "inspect"]
    /\ UNCHANGED <<request, handler, locals, result, response>>

\* StartContainer with PublishAllPorts: the runtime publishes the ports the
\* image exposes, whatever they are.
StartContainerOk(c) ==
    /\ pc[c] = "start"
    /\ \E t \in PortTables :
          containers' = [containers EXCEPT ![container[c]] =
                            [@ EXCEPT !.state = "running", !.ports = t]]
    /\ Log(c, <<RuntimeEvent("StartContainer", container[c], "ok")>>)
    /\ pc' = [pc EXCEPT ![c] = "inspect"]
    /\ UNCHANGED <<request, handler, locals, result, response>>

\* A variant of the start-error branch without its return.
StartContainerErrFallsThrough(c) ==
    /\ pc[c] = "start"
    /\ Log(c, <<RuntimeEvent("StartContainer", container[c], "error")>>)
    /\ pc' = [pc EXCEPT ![c] = "inspect"]
    /\ UNCHANGED <<request, handler, locals, result, response, containers>>

StartContainerErr(c) ==
    /\ pc[c] = "start"
    /\ Log(c, <<RuntimeEvent("StartContainer", container[c], "error")>>)
    /\ Return(c, StartError)
    /\ UNCHANGED <<request, handler, locals, containers>>

InspectContainerErr(c) ==
    /\ pc[c] = "inspect"
    /\ Log(c, <<RuntimeEvent("InspectContainer", container[c], "error")>>)
    /\ Return(c, InspectionError)
    /\ UNCHANGED <<request, handler, locals, containers>>

\* InspectContainer succeeds; the port checks follow, then the backoff is set up.
InspectContainerOk(c) ==
    /\ pc[c] = "inspect"
    /\ Log(c, <<RuntimeEvent("InspectContainer", container[c], "ok")>>)
    /\ LET r == ResolveEndpoint(containers[container[c]].ports) IN
       IF r.err # Nil
       THEN /\ Return(c, r.err)
            /\ UNCHANGED <<request, handler, locals, containers>>
       ELSE /\ ip' = [ip EXCEPT ![c] = r.ip]
            /\ port' = [port EXCEPT ![c] = r.port]
            /\ elapsed' = [elapsed EXCEPT ![c] = 0]
            /\ currentInterval' = [currentInterval EXCEPT ![c] = InitialInterval]
            /\ pc' = [pc EXCEPT ![c] = "probe"]
            /\ UNCHANGED <<request, handler, image, container, err, result, response,
                           containers>>

\* A variant of the round that inspects the container again before each attempt.
ProbeAttemptReinspects(c) ==
    /\ pc[c] = "probe"
    /\ \E r \in GetResults, d \in AttemptTimes :
          LET e == Operation(r)
              now == elapsed[c] + d
              again == RuntimeEvent("InspectContainer", container[c], "ok")
              get == GetEvent(PingURL(ip[c], port[c]), Received(r),
                              DecodeAgentInfo(r.body).Owner)
          IN
          /\ err' = [err EXCEPT ![c] = e]
          /\ IF e = Nil \/ NextBackOffStops(now)
             THEN /\ Log(c, <<again, get>>)
                  /\ elapsed' = [elapsed EXCEPT ![c] = now]
                  /\ pc' = [pc EXCEPT ![c] = "stop"]
                  /\ UNCHANGED currentInterval
             ELSE \E w \in RandomizedIntervals(currentInterval[c]) :
                  /\ Log(c, <<again, get, SleepEvent(w)>>)
                  /\ elapsed' = [elapsed EXCEPT ![c] = now + w]
                  /\ currentInterval' = [currentInterval EXCEPT ![c] =
                                            IncrementCurrentInterval(@)]
                  /\ UNCHANGED pc
    /\ UNCHANGED <<request, handler, image, container, ip, port, result, response,
                   containers>>

\* One round of backoff.Retry: the operation, and on error NextBackOff and the
\* sleep before the next round.
ProbeAttempt(c) ==
    /\ pc[c] = "probe"
    /\ \E r \in GetResults, d \in AttemptTimes :
          LET e == Operation(r)
              now == elapsed[c] + d
              get == GetEvent(PingURL(ip[c], port[c]), Received(r),
                              DecodeAgentInfo(r.body).Owner)
          IN
          /\ err' = [err EXCEPT ![c] = e]
          /\ IF e = Nil \/ NextBackOffStops(now)
             THEN /\ Log(c, <<get>>)
                  /\ elapsed' = [elapsed EXCEPT ![c] = now]
                  /\ pc' = [pc EXCEPT ![c] = "stop"]
                  /\ UNCHANGED currentInterval
             ELSE \E w \in RandomizedIntervals(currentInterval[c]) :
                  /\ Log(c, <<get, SleepEvent(w)>>)
                  /\ elapsed' = [elapsed EXCEPT ![c] = now + w]
                  /\ currentInterval' = [currentInterval EXCEPT ![c] =
                                            IncrementCurrentInterval(@)]
                  /\ UNCHANGED pc
    /\ UNCHANGED <<request, handler, image, container, ip, port, result, response,
                   containers>>

StopContainerOk(c) ==
    /\ pc[c] = "stop"
    /\ containers' = [containers EXCEPT ![container[c]] = [@ EXCEPT !.state = "exited"]]
    /\ Log(c, <<RuntimeEvent("StopContainer", container[c], "ok")>>)
    /\ Return(c, Nil)
    /\ UNCHANGED <<request, handler, locals>>

\* A variant of the teardown-error branch that tries StopContainer again.
StopContainerErrRetried(c) ==
    /\ pc[c] = "stop"
    /\ Log(c, <<RuntimeEvent("StopContainer", container[c], "error")>>)
    /\ UNCHANGED <<pc, request, handler, locals, result, response, containers>>

StopContainerErr(c) ==
    /\ pc[c] = "stop"
    /\ Log(c, <<RuntimeEvent("StopContainer", container[c], "error")>>)
    /\ Return(c, TeardownError)
    /\ UNCHANGED <<request, handler, locals, containers>>

\* ------------------------------------------------------------ specification

Next ==
    \E c \in Calls :
        \/ ValidateAgentHandler(c)
        \/ UploadImageHandler(c)
        \/ CreateContainerOk(c)
        \/ CreateContainerErr(c)
        \/ StartContainerOk(c)
        \/ StartContainerErr(c)
        \/ InspectContainerOk(c)
        \/ InspectContainerErr(c)
        \/ ProbeAttempt(c)
        \/ StopContainerOk(c)
        \/ StopContainerErr(c)

Spec == Init /\ [][Next]_vars

\* One step of the ValidateImage call of request c.
ValidateImageStep(c) ==
    \/ CreateContainerOk(c) \/ CreateContainerErr(c)
    \/ StartContainerOk(c) \/ StartContainerErr(c)
    \/ InspectContainerOk(c) \/ InspectContainerErr(c)
    \/ ProbeAttempt(c)
    \/ StopContainerOk(c) \/ StopContainerErr(c)

\* Every runtime call and every http.Get returns, and a sleeping goroutine is
\* woken: a call that can take a step eventually takes one.
SpecFair == Spec /\ \A c \in Calls : WF_vars(ValidateImageStep(c))

\* ------------------------------------------------------------ concurrent requests

\* Concurrent requests are explored with a narrower environment.  Requests:
\* /validate of ok-agent or an upload of garbage-agent from dockerhub.
\* Runtime: a started container publishes nothing or one mapping for
\* 3423/tcp, and no two running containers share a host port.  Agent: answers
\* the first attempt with the btc payload after 6 s.
ConcurrentRequests ==
    {NoRequest, FormRequest("ok-agent"),
     [kind |-> "object", Image |-> "garbage-agent", Source |-> "dockerhub"]}

ConcurrentTables ==
    {NoPorts} \cup {[p \in {ServicePort} |-> <<b>>] : b \in PortBindings}

Publishes(id) ==
    containers[id].state = "running" /\ ServicePort \in DOMAIN containers[id].ports

ConcurrentEnvironment ==
    /\ \A id \in DOMAIN containers : containers[id].ports \in ConcurrentTables
    /\ \A id1, id2 \in DOMAIN containers :
          (id1 # id2 /\ Publishes(id1) /\ Publishes(id2))
              => containers[id1].ports[ServicePort][1].HostPort
                    # containers[id2].ports[ServicePort][1].HostPort
    /\ \A c \in Calls :
          /\ request[c] \in ConcurrentRequests
          /\ elapsed[c] \in {0, 6 * Second}
          /\ \A i \in DOMAIN ops[c] :
                ops[c][i].op = "Get" => (ops[c][i].res = Nil /\ ops[c][i].owner = "btc")

\* Every request is in flight from the start.
InitConcurrent == InitWith(Calls)

NextConcurrent ==
    \E c \in Calls :
        \/ ValidateAgentHandler(c) /\ ConcurrentEnvironment'
        \/ UploadImageHandler(c) /\ ConcurrentEnvironment'
        \/ CreateContainerOk(c) /\ ConcurrentEnvironment'
        \/ CreateContainerErr(c) /\ ConcurrentEnvironment'
        \/ StartContainerOk(c) /\ ConcurrentEnvironment'
        \/ StartContainerErr(c) /\ ConcurrentEnvironment'
        \/ InspectContainerOk(c) /\ ConcurrentEnvironment'
        \/ InspectContainerErr(c) /\ ConcurrentEnvironment'
        \/ ProbeAttempt(c) /\ ConcurrentEnvironment'
        \/ StopContainerOk(c) /\ ConcurrentEnvironment'
        \/ StopContainerErr(c) /\ ConcurrentEnvironment'

SpecConcurrent == InitConcurrent /\ [][NextConcurrent]_vars

\* ------------------------------------------------------------ properties

\* The positions in request c's history of its calls of operation op.
OpsOf(c, op) == {i \in DOMAIN ops[c] : ops[c][i].op = op}
Max(S) == CHOOSE x \in S : \A y \in S : y <= x
Count(c, op) == Cardinality(OpsOf(c, op))
Succeeded(c, op) == \E i \in OpsOf(c, op) : ops[c][i].res = "ok"
Failed(c, op) == \E i \in OpsOf(c, op) : ops[c][i].res = "error"
Returned(c) == pc[c] = "done" /\ result[c] # Pending

\* The port table the runtime holds for the container request c created.
TableOf(c) == containers[container[c]].ports
HasServicePort(c) == ServicePort \in DOMAIN TableOf(c)
ServiceMappings(c) == IF HasServicePort(c) THEN TableOf(c)[ServicePort] ELSE <<>>

\* C1: whenever ValidateImage has returned and CreateContainer had succeeded,
\* StopContainer was invoked on that container, whatever branch was taken.
C1_StoppedOnEveryBranch ==
    \A c \in Calls :
        (Returned(c) /\ Succeeded(c, "CreateContainer"))
            => \E i \in OpsOf(c, "StopContainer") : ops[c][i].id = container[c]

\* C2: ValidateImage returns nil only if the probe ended with a decoded
\* payload; a probe that ended in an error makes it return that error, also
\* when StopContainer succeeded.
C2_SuccessOnlyIfValidated ==
    \A c \in Calls :
        Returned(c) =>
            /\ (result[c] = Nil => (Count(c, "Get") > 0 /\ err[c] = Nil))
            /\ ((Count(c, "Get") > 0 /\ err[c] # Nil /\ Succeeded(c, "StopContainer"))
                    => result[c] = err[c])

\* C3: after a response whose body does not decode no further request is
\* issued (nor slept for), and ValidateImage returns the decode error.
C3_MalformedNotRetried ==
    \A c \in Calls : \A i \in OpsOf(c, "Get") :
        ops[c][i].res = DecodeError =>
            /\ \A j \in DOMAIN ops[c] : j > i => ops[c][j].op \notin {"Get", "Sleep"}
            /\ (Returned(c) /\ Succeeded(c, "StopContainer") => result[c] = DecodeError)

\* C4: a container that was created and started and whose inspected table has
\* no entry for 3423/tcp makes ValidateImage return PortNotExposedError with no
\* probe attempt and exactly one StopContainer.
C4_MissingPortStopsContainer ==
    \A c \in Calls :
        (Returned(c) /\ Succeeded(c, "StartContainer")
         /\ Succeeded(c, "InspectContainer") /\ ~HasServicePort(c))
            => /\ result[c] = PortNotExposedError
               /\ Count(c, "Get") = 0
               /\ Count(c, "StopContainer") = 1

\* C5: when CreateContainer fails ValidateImage returns the creation error at
\* once: that call is the only runtime operation of the request, no container
\* identifier is held and none exists for the request.
C5_CreateFailureEndsCall ==
    \A c \in Calls :
        Failed(c, "CreateContainer")
            => /\ Returned(c) /\ result[c] = CreationError
               /\ Len(ops[c]) = 1
               /\ container[c] = NoContainer
               /\ \A id \in DOMAIN containers : containers[id].creator # c

C5_Witness ==
    \E c \in Calls : Failed(c, "CreateContainer") /\ Returned(c)

\* C6: a failing StopContainer leaves the verdict alone: nil after a decoded
\* payload, the probe's error after a failed probe.
C6_TeardownDoesNotOverride ==
    \A c \in Calls :
        (Returned(c) /\ Failed(c, "StopContainer"))
            => result[c] = err[c]

\* C7: with exactly one mapping for 3423/tcp every probe goes to that
\* mapping's HostIP and HostPort; with two or more the call returns
\* AmbiguousMappingError and probes nothing.
C7_EndpointIsTheSingleMapping ==
    \A c \in Calls :
        /\ \A i \in OpsOf(c, "Get") :
              /\ Len(ServiceMappings(c)) = 1
              /\ ip[c] = ServiceMappings(c)[1].HostIP
              /\ port[c] = ServiceMappings(c)[1].HostPort
              /\ ops[c][i].url = <<"http://", ServiceMappings(c)[1].HostIP, ":",
                                   ServiceMappings(c)[1].HostPort, "/ping">>
        /\ (Succeeded(c, "InspectContainer") /\ Len(ServiceMappings(c)) >= 2)
              => /\ Returned(c) /\ result[c] = AmbiguousMappingError
                 /\ Count(c, "Get") = 0

C7_Witness ==
    /\ \E c \in Calls : Count(c, "Get") > 0 /\ port[c] = "49002"
    /\ Len(containers) > 0

C7_WitnessAmbiguous ==
    \E c \in Calls : Succeeded(c, "InspectContainer") /\ Len(ServiceMappings(c)) >= 2

\* C8: a probe request is only ever issued after StartContainer and
\* InspectContainer succeeded, in that order, on a table with exactly one
\* mapping for 3423/tcp; with none or several the call ends without a probe.
C8_NoProbeWithoutEndpoint ==
    \A c \in Calls :
        /\ \A i \in OpsOf(c, "Get") :
              /\ \E j \in OpsOf(c, "StartContainer"), k \in OpsOf(c, "InspectContainer") :
                    j < k /\ k < i /\ ops[c][j].res = "ok" /\ ops[c][k].res = "ok"
              /\ HasServicePort(c)
              /\ Len(ServiceMappings(c)) = 1
        /\ (Succeeded(c, "InspectContainer") /\ Len(ServiceMappings(c)) # 1)
              => Returned(c) /\ result[c] # Nil /\ Count(c, "Get") = 0

C8_Witness ==
    /\ \E c \in Calls : pc[c] = "probe" /\ Count(c, "Get") = 2
    /\ \E c \in Calls : HasServicePort(c)

\* C9: one call invokes StopContainer at most once, and no container is
\* stopped again after it was stopped.
C9_StopAtMostOnce ==
    \A c \in Calls :
        /\ Count(c, "StopContainer") <= 1
        /\ \A i \in OpsOf(c, "StopContainer") :
              \A j \in DOMAIN ops[c] : j < i =>
                  ~(ops[c][j].op = "StopContainer" /\ ops[c][j].id = ops[c][i].id)

C9_Witness ==
    \E c \in Calls : Returned(c) /\ Failed(c, "StopContainer")

\* C10: a decoded payload ends the probe, whatever its Owner, and if
\* StopContainer then succeeds ValidateImage returns nil.
C10_DecodablePayloadValidates ==
    \A c \in Calls : \A i \in OpsOf(c, "Get") :
        ops[c][i].res = Nil =>
            /\ err[c] = Nil
            /\ \A j \in DOMAIN ops[c] : j > i => ops[c][j].op = "StopContainer"
            /\ (Returned(c) /\ Succeeded(c, "StopContainer")) => result[c] = Nil

C10_Witness ==
    \E c \in Calls : \E i \in OpsOf(c, "Get") :
        /\ ops[c][i].res = Nil /\ ops[c][i].owner # "btc"
        /\ i > 4
        /\ Returned(c) /\ result[c] = Nil

\* The probe of request c has ended: backoff.Retry has returned.
ProbeEnded(c) == pc[c] \in {"stop", "done"} /\ Count(c, "Get") > 0

\* C11: a transport error is retried as long as the elapsed time is within
\* MaxElapsedTime: a probe only ends on a transport error once the bound is
\* exceeded, and a decoded payload after any number of refusals ends it as a
\* success.
C11_NetworkFailureRetried ==
    \A c \in Calls :
        /\ (ProbeEnded(c) /\ err[c] = NetError) => elapsed[c] > MaxElapsedTime
        /\ \A i \in OpsOf(c, "Get") :
              (ops[c][i].res = NetError /\ elapsed[c] <= MaxElapsedTime)
                  => i + 1 \in OpsOf(c, "Sleep")
        /\ \A i \in OpsOf(c, "Sleep") :
              IF i = Len(ops[c]) THEN pc[c] = "probe" ELSE i + 1 \in OpsOf(c, "Get")
        /\ (ProbeEnded(c) /\ ops[c][Max(OpsOf(c, "Get"))].res = Nil) => err[c] = Nil

C11_Witness ==
    \E c \in Calls :
        /\ ProbeEnded(c) /\ err[c] = Nil
        /\ elapsed[c] <= MaxElapsedTime
        /\ Cardinality({i \in OpsOf(c, "Get") : ops[c][i].res = NetError}) >= 2

\* The phase an external call belongs to.
Phase(ev) ==
    CASE ev.op = "CreateContainer" -> 1
      [] ev.op = "StartContainer" -> 2
      [] ev.op = "InspectContainer" -> 3
      [] ev.op \in {"Get", "Sleep"} -> 4
      [] ev.op = "StopContainer" -> 5

\* C12: the external calls of one ValidateImage call come in the order
\* CreateContainer, StartContainer, InspectContainer, probe attempts,
\* StopContainer: each follows its predecessor, only probe attempts repeat,
\* and nothing follows StopContainer.
C12_PhasesInOrder ==
    \A c \in Calls :
        /\ ops[c] # <<>> => Phase(ops[c][1]) = 1
        /\ \A i \in DOMAIN ops[c] : i > 1 =>
              \/ Phase(ops[c][i]) = Phase(ops[c][i - 1]) + 1
              \/ Phase(ops[c][i]) = 4 /\ Phase(ops[c][i - 1]) = 4
        /\ \A i \in DOMAIN ops[c] : i > 1 => ops[c][i - 1].res \in {"ok", Nil, NetError, DecodeError}
        /\ \A i \in DOMAIN ops[c] :
              (i > 1 /\ Phase(ops[c][i]) \in {2, 3}) => ops[c][i - 1].res = "ok"

C12_Witness ==
    \E c \in Calls :
        /\ Returned(c) /\ Succeeded(c, "StopContainer")
        /\ Count(c, "Get") >= 3

\* The sleep that preceded the attempt request c is about to make, if any.
LastWait(c) ==
    IF ops[c] # <<>> /\ ops[c][Len(ops[c])].op = "Sleep"
    THEN ops[c][Len(ops[c])].wait ELSE 0

C15_BackoffIntervals ==
    /\ [](\A c \in Calls : pc[c] = "probe" =>
              /\ InitialInterval = Second
              /\ MaxInterval = 10 * Second
              /\ MaxElapsedTime = 10 * Second
              /\ InitialInterval <= MaxInterval
              /\ (Count(c, "Get") = 0 => currentInterval[c] = Second)
              /\ currentInterval[c] <= 10 * Second)
    /\ [][\A c \in Calls : (pc[c] = "probe" /\ pc'[c] = "probe")
              => currentInterval'[c] >= currentInterval[c]]_vars

\* C16: a failing StartContainer ends the call with the start error before any
\* inspection or probe, a failing InspectContainer ends it with the inspection
\* error before any probe, and both errors differ from each other and from the
\* creation, port-not-exposed and ambiguous-mapping errors.
C16_LifecycleFailureNamesPhase ==
    \A c \in Calls :
        /\ Failed(c, "StartContainer")
              => /\ Returned(c) /\ result[c] = StartError
                 /\ Count(c, "InspectContainer") = 0
                 /\ Count(c, "Get") = 0
        /\ Failed(c, "InspectContainer")
              => /\ Returned(c) /\ result[c] = InspectionError
                 /\ Count(c, "Get") = 0
        /\ (Failed(c, "StartContainer") \/ Failed(c, "InspectContainer"))
              => result[c] \notin {Nil, CreationError, PortNotExposedError,
                                   AmbiguousMappingError}
        /\ StartError # InspectionError

C16_Witness ==
    \E c \in Calls : Returned(c) /\ Failed(c, "InspectContainer")

C16_WitnessStart ==
    \E c \in Calls : Returned(c) /\ Failed(c, "StartContainer")

\* C17: the container is inspected once, before the first attempt, and every
\* attempt of the call, retries included, requests /ping on the one host and
\* port taken from that inspection.
C17_OneEndpointForAllAttempts ==
    \A c \in Calls :
        /\ Count(c, "InspectContainer") <= 1
        /\ \A i \in OpsOf(c, "Get") :
              /\ \E k \in OpsOf(c, "InspectContainer") : k < i /\ ops[c][k].res = "ok"
              /\ \A k \in OpsOf(c, "InspectContainer") : k < i
              /\ Len(ops[c][i].url) = 5
              /\ ops[c][i].url[5] = "/ping"
              /\ ops[c][i].url[2] = ip[c] /\ ops[c][i].url[4] = port[c]
        /\ \A i, j \in OpsOf(c, "Get") : ops[c][i].url = ops[c][j].url

C17_Witness ==
    \E c \in Calls : Count(c, "Get") >= 3 /\ Count(c, "InspectContainer") = 1

\* Request c caused no runtime operation and never entered ValidateImage.
NoRuntimeOperation(c) ==
    /\ ops[c] = <<>>
    /\ result[c] = Pending
    /\ container[c] = NoContainer
    /\ \A id \in DOMAIN containers : containers[id].creator # c

\* C18: a request turned down at the HTTP boundary causes no runtime
\* operation: an empty image parameter is answered 400, and an upload whose
\* body does not decode or whose Source is not "dockerhub" is answered without
\* a call of ValidateImage.
C18_RejectedRequestTouchesNothing ==
    \A c \in Calls :
        /\ (handler[c] = "validate" /\ request[c].Image = "")
              => /\ pc[c] = "done" /\ response[c].code = 400
                 /\ NoRuntimeOperation(c)
        /\ (handler[c] = "upload"
            /\ ~(request[c].kind = "object" /\ request[c].Source = "dockerhub"))
              => /\ pc[c] = "done" /\ response[c].code \in {400, 501}
                 /\ NoRuntimeOperation(c)
        /\ (handler[c] = "upload" /\ ~NoRuntimeOperation(c))
              => request[c].Source = "dockerhub"

C18_Witness ==
    \E c \in Calls :
        /\ handler[c] = "upload" /\ request[c].Source = "github"
        /\ pc[c] = "done" /\ response[c].code = 501

C18_WitnessEmptyImage ==
    \E c \in Calls :
        handler[c] = "validate" /\ request[c].Image = "" /\ pc[c] = "done"

\* The container identifier CreateContainer returned to request c.
CreatedBy(c) == {ops[c][i].id : i \in {j \in OpsOf(c, "CreateContainer") : ops[c][j].res = "ok"}}

\* C14: with requests running concurrently every call creates its own
\* container, passes only that container's identifier to StartContainer,
\* InspectContainer and StopContainer, probes only that container's endpoint,
\* and no two calls hold the same container, not even for the same image.
C14_CallsKeepTheirOwnContainer ==
    /\ \A c \in Calls :
          /\ \A id \in CreatedBy(c) :
                id \in DOMAIN containers /\ containers[id].creator = c
                /\ containers[id].image = image[c] /\ container[c] = id
          /\ \A i \in DOMAIN ops[c] :
                ops[c][i].op \in {"StartContainer", "InspectContainer", "StopContainer"}
                    => ops[c][i].id \in CreatedBy(c)
          /\ \A i \in OpsOf(c, "Get") :
                /\ container[c] \in CreatedBy(c)
                /\ ServicePort \in DOMAIN containers[container[c]].ports
                /\ ops[c][i].url =
                       PingURL(containers[container[c]].ports[ServicePort][1].HostIP,
                               containers[container[c]].ports[ServicePort][1].HostPort)
          /\ \A id \in DOMAIN containers :
                (containers[id].creator = c /\ containers[id].state # "created")
                    => \E i \in OpsOf(c, "StartContainer") : ops[c][i].id = id
    /\ \A c \in Calls : \A id \in DOMAIN containers :
          (pc[c] = "probe" /\ id # container[c] /\ Publishes(id))
              => containers[id].ports[ServicePort][1].HostPort # port[c]
    /\ \A c1, c2 \in Calls :
          c1 # c2 => CreatedBy(c1) \cap CreatedBy(c2) = {}
    /\ Len(containers) = Cardinality(UNION {CreatedBy(c) : c \in Calls})

C14_Witness ==
    \E c1, c2 \in Calls :
        /\ c1 # c2 /\ image[c1] = image[c2]
        /\ pc[c1] = "stop" /\ pc[c2] = "stop"
        /\ container[c1] # container[c2]
        /\ Count(c1, "Get") > 0 /\ Count(c2, "Get") > 0

====
